---- MODULE Spec2Model ----
(***************************************************************************)
(* A model of MarkdownStreamRenderer (src/src/MarkdownStreamRenderer.js,   *)
(* lines 1-323): the text buffer, the throttle timer, the typewriter queue *)
(* and ticker, the render pass and the text preprocessor.                  *)
(*                                                                         *)
(* A JavaScript string is a sequence of one-character strings.  The        *)
(* external collaborators micromark and DOMPurify are deterministic free   *)
(* constructors: two results are equal exactly when they were made from    *)
(* the same source text with the same settings.                            *)
(***************************************************************************)
EXTENDS Integers, Sequences, FiniteSets, TLC

\* ------------------------------------------------------------------ bounds

\* The longest text the engine holds (buffer plus queued chunks), in characters.
MaxLen == 3

\* The values of options.typewriter.step explored (0 stands for one that is not
\* a positive number).
Steps == {0, 1, 2}

\* The characters that texts are made of in the explored runs.
Alphabet == {"a", "\n"}

\* The most parts (spans and stretches of text, or lines) a text handed to the
\* preprocessor is composed of.
MaxParts == 3

\* ----------------------------------------------------------------- strings

\* JavaScript's \s for the characters TLA+ can write.
WhiteSpace == {" ", "\t", "\n", "\r", "\f"}

\* The line terminators the regular expression '.' does not match without /s.
LineTerminators == {"\n", "\r"}

\* The backtick character (a string literal cannot hold it).
BackTick == "backtick"

Digits == {"0", "1", "2", "3", "4", "5", "6", "7", "8", "9"}

Min(a, b) == IF a < b THEN a ELSE b

\* String.prototype.slice(from) with 0-based from.
SliceFrom(s, from) == IF from >= Len(s) THEN <<>> ELSE SubSeq(s, from + 1, Len(s))

\* String.prototype.slice(0, to).
SliceTo(s, to) == IF to >= Len(s) THEN s ELSE SubSeq(s, 1, to)

\* String.prototype.startsWith(p) at 1-based position i.
HasAt(s, i, p) == /\ i >= 1
                  /\ i + Len(p) - 1 <= Len(s)
                  /\ \A k \in 1..Len(p) : s[i + k - 1] = p[k]

StartsWith(s, p) == HasAt(s, 1, p)

RECURSIVE TrimStart(_)
TrimStart(s) == IF s # <<>> /\ Head(s) \in WhiteSpace THEN TrimStart(Tail(s)) ELSE s

RECURSIVE TrimEnd(_)
TrimEnd(s) ==
  IF s # <<>> /\ s[Len(s)] \in WhiteSpace THEN TrimEnd(SubSeq(s, 1, Len(s) - 1)) ELSE s

\* String.prototype.trim().
Trim(s) == TrimEnd(TrimStart(s))

\* input.replace(/\r\n/g, "\n")
RECURSIVE ReplaceCRLF(_)
ReplaceCRLF(s) ==
  IF s = <<>> THEN <<>>
  ELSE IF HasAt(s, 1, <<"\r", "\n">>) THEN <<"\n">> \o ReplaceCRLF(SliceFrom(s, 2))
  ELSE <<Head(s)>> \o ReplaceCRLF(Tail(s))

\* String.prototype.split("\n"): always at least one line.
RECURSIVE SplitLines(_)
SplitLines(s) ==
  IF \A i \in 1..Len(s) : s[i] # "\n" THEN <<s>>
  ELSE LET p == CHOOSE i \in 1..Len(s) : s[i] = "\n" /\ \A j \in 1..(i - 1) : s[j] # "\n"
       IN <<SubSeq(s, 1, p - 1)>> \o SplitLines(SliceFrom(s, p))

\* Array.prototype.join("\n").
RECURSIVE JoinLines(_)
JoinLines(ls) ==
  IF ls = <<>> THEN <<>>
  ELSE IF Len(ls) = 1 THEN ls[1]
  ELSE ls[1] \o <<"\n">> \o JoinLines(Tail(ls))

\* The concatenation of a sequence of strings.
RECURSIVE Concat(_)
Concat(q) == IF q = <<>> THEN <<>> ELSE Head(q) \o Concat(Tail(q))

\* Every string over Alphabet of at most n characters.
Texts(n) == UNION {[1..k -> Alphabet] : k \in 0..n}

\* ------------------------------------------------------------ preprocessing

\* The length of one or two backslashes followed by the delimiter d at
\* position i (two backslashes are tried first), or 0 when neither is there.
DelimLenAt(s, i, d) ==
  IF HasAt(s, i, <<"\\", "\\", d>>) THEN 3
  ELSE IF HasAt(s, i, <<"\\", d>>) THEN 2
  ELSE 0

\* The lazy (.*?) followed by the closing delimiter: the first position at or
\* after e where the closing delimiter stands, 0 when there is none or, without
\* the s flag, when a line terminator comes first.
RECURSIVE FindClose(_, _, _, _)
FindClose(s, e, close, dotAll) ==
  IF e > Len(s) THEN 0
  ELSE IF DelimLenAt(s, e, close) > 0 THEN e
  ELSE IF ~dotAll /\ s[e] \in LineTerminators THEN 0
  ELSE FindClose(s, e + 1, close, dotAll)

\* out.replace(regex, (_, inner) => left + inner + right) for the regex "one or two
\* backslashes, open, lazy anything, one or two backslashes, close", with flag g,
\* scanning from position i.
RECURSIVE ReplaceSpans(_, _, _, _, _, _, _)
ReplaceSpans(s, i, open, close, dotAll, left, right) ==
  IF i > Len(s) THEN <<>>
  ELSE LET ol == DelimLenAt(s, i, open)
           e  == IF ol > 0 THEN FindClose(s, i + ol, close, dotAll) ELSE 0
       IN IF e > 0
          THEN left \o SubSeq(s, i + ol, e - 1) \o right
               \o ReplaceSpans(s, e + DelimLenAt(s, e, close), open, close, dotAll, left, right)
          ELSE <<s[i]>> \o ReplaceSpans(s, i + 1, open, close, dotAll, left, right)

\* The first replace of _preprocess (flags g and s): the block form, inner between
\* a line of two dollars before and after.
BlockMath(s) == ReplaceSpans(s, 1, "[", "]", TRUE, <<"$", "$", "\n">>, <<"\n", "$", "$">>)

\* The second replace of _preprocess with the flag s added to its regex.
InlineMath_DotAll(s) == ReplaceSpans(s, 1, "(", ")", TRUE, <<"$">>, <<"$">>)

\* The second replace of _preprocess (flag g only): the inline form, one dollar
\* on each side.
InlineMath(s) == ReplaceSpans(s, 1, "(", ")", FALSE, <<"$">>, <<"$">>)

\* The number of leading characters of s that are in set cs.
RECURSIVE LeadCount(_, _)
LeadCount(s, cs) == IF s # <<>> /\ Head(s) \in cs THEN 1 + LeadCount(Tail(s), cs) ELSE 0

\* The blockStart regex of _applyHardBreaks, tested on the trimmed next line:
\* 1-6 hashes and a space, > and a space, a bullet and a space, digits, a dot and
\* a space, a fence, optional spaces and <, or nothing but spaces.
BlockStart(nt) ==
  LET h == LeadCount(nt, {"#"})
      d == LeadCount(nt, Digits)
      wsAt(i) == i <= Len(nt) /\ nt[i] \in WhiteSpace
  IN \/ h \in 1..6 /\ wsAt(h + 1)
     \/ StartsWith(nt, <<">">>) /\ wsAt(2)
     \/ nt # <<>> /\ nt[1] \in {"-", "+", "*"} /\ wsAt(2)
     \/ d >= 1 /\ HasAt(nt, d + 1, <<".">>) /\ wsAt(d + 2)
     \/ StartsWith(nt, <<BackTick, BackTick, BackTick>>)
     \/ StartsWith(nt, <<"~", "~", "~">>)
     \/ StartsWith(TrimStart(nt), <<"<">>)
     \/ TrimStart(nt) = <<>>

BlockTags ==
  { <<"d", "i", "v">>, <<"p">>, <<"s", "e", "c", "t", "i", "o", "n">>,
    <<"a", "r", "t", "i", "c", "l", "e">>, <<"h", "e", "a", "d", "e", "r">>,
    <<"f", "o", "o", "t", "e", "r">>, <<"t", "a", "b", "l", "e">>, <<"u", "l">>,
    <<"o", "l">>, <<"l", "i">>, <<"p", "r", "e">>,
    <<"b", "l", "o", "c", "k", "q", "u", "o", "t", "e">> }

\* The closingHtmlBlock regex of _applyHardBreaks, tested on the trimmed line.
ClosingHtmlBlock(t) ==
  \E tag \in BlockTags :
    /\ StartsWith(t, <<"<", "/">> \o tag \o <<">">>)
    /\ TrimStart(SliceFrom(t, Len(tag) + 3)) = <<>>

\* The regex "two whitespace characters at the end", tested on the line.
EndsInTwoSpaces(line) ==
  Len(line) >= 2 /\ line[Len(line)] \in WhiteSpace /\ line[Len(line) - 1] \in WhiteSpace

IsFence(t) == StartsWith(t, <<BackTick, BackTick, BackTick>>) \/ StartsWith(t, <<"~", "~", "~">>)

\* The for loop of _applyHardBreaks from index i (1-based) on: the lines pushed to res.
RECURSIVE HardBreakLoop(_, _, _, _)
HardBreakLoop(lines, i, code, math) ==
  IF i > Len(lines) THEN <<>>
  ELSE
    LET line == lines[i]
        t    == Trim(line)
    IN IF IsFence(t)
       THEN <<line>> \o HardBreakLoop(lines, i + 1, ~code, math)
       ELSE IF StartsWith(t, <<"$", "$">>) /\ ~code
       THEN <<line>> \o HardBreakLoop(lines, i + 1, code, ~math)
       ELSE IF ~code /\ ~math
       THEN LET next   == IF i < Len(lines) THEN lines[i + 1] ELSE <<>>
                nt     == Trim(next)
                broken == IF /\ Len(t) > 0
                             /\ Len(nt) > 0
                             /\ ~BlockStart(nt)
                             /\ ~EndsInTwoSpaces(line)
                          THEN line \o <<" ", " ">>
                          ELSE line
            IN IF ClosingHtmlBlock(t) /\ Len(nt) > 0 /\ ~BlockStart(nt)
               THEN <<broken, <<>>>> \o HardBreakLoop(lines, i + 1, code, math)
               ELSE <<broken>> \o HardBreakLoop(lines, i + 1, code, math)
       ELSE <<line>> \o HardBreakLoop(lines, i + 1, code, math)

\* _applyHardBreaks(input)
ApplyHardBreaks(input) ==
  JoinLines(HardBreakLoop(SplitLines(ReplaceCRLF(input)), 1, FALSE, FALSE))

\* _preprocess(text) under the flags mathSyntax.brackets and respectNewlines.
\* mathSyntax.dollars keeps its constructor default (false), so
\* _normalizeInlineDollars is never entered.
Preprocess(text, brackets, newlines) ==
  IF ~brackets THEN text
  ELSE LET out == InlineMath(BlockMath(text))
       IN IF newlines THEN ApplyHardBreaks(out) ELSE out

\* ------------------------------------------------------------------- state

VARIABLES
  typewriter,       \* this.typewriter: [enabled, step] (set by the constructor)
  mathSyntax,       \* this.mathSyntax: [brackets, dollars]
  respectNewlines,  \* this.respectNewlines
  extThrows,        \* whether micromark throws under the configured extensions
  buffer,           \* this.buffer
  twQueue,          \* this.twQueue
  timer,            \* this.timer: the throttle timer's handle, NoTimer when null
  twTimer,          \* this.twTimer: the ticker's handle, NoTimer when null
  listener,         \* whether this.listener holds a function
  timeouts,         \* the runtime's live setTimeout timers
  intervals,        \* the runtime's live setInterval timers
  ev,               \* what the latest step did: the call, its render pass, the listener
  observe,          \* history: whether the listener's arguments are recorded
  destroyed,        \* history: destroy() has been called
  calls,            \* history: the latest listener invocation
  batch,            \* history: the writes made since the throttle timer was started
  reveal,           \* history: the reveal of one text written to an empty engine
  stale,            \* history: the buffer was assigned since the latest render pass
  parts             \* history: the parts the caller composed its text of

config == <<typewriter, mathSyntax, respectNewlines, extThrows>>
engine == <<buffer, twQueue, timer, twTimer, listener, timeouts, intervals>>
history == <<observe, destroyed, calls, batch, reveal, stale, parts>>
vars == <<config, engine, ev, history>>

\* The null handle (any live handle is a positive number, which is truthy).
NoTimer == 0

\* A JavaScript value handed to write/update/_emit: a string or something else.
StringValue(t) == [type |-> "string", val |-> t]
Undefined == [type |-> "undefined", val |-> <<>>]
NonString == [type |-> "object", val |-> <<>>]

\* The arguments a caller hands to write and update.
Inputs == {StringValue(t) : t \in Texts(MaxLen)} \cup {NonString, Undefined}

\* No sanitized result (no render pass ran, or the listener was never invoked).
NoHtml == <<>>

\* The characters the engine holds: revealed and queued.
TotalLen(buf, q) == Len(buf) + Len(Concat(q))

\* The handle setTimeout/setInterval returns: one no live timer and no field holds.
FreshId ==
  LET used == timeouts \cup intervals \cup {timer, twTimer}
  IN CHOOSE i \in 1..(Cardinality(used) + 1) :
       i \notin used /\ \A j \in 1..(i - 1) : j \in used

\* ------------------------------------------------------------- render pass

\* micromark(source, settings): the HTML of a source under the configured
\* extensions or under the fallback settings.
Micromark(source, settings) == <<"html", settings, source>>

\* DOMPurify.sanitize(html, this.sanitizeOptions)
Sanitize(html) == <<"safe", html>>

\* _emit with the catch block parsing the preprocessed source instead of the
\* raw buffer.
Emit_FallbackOnSource(buf, forceHtml) ==
  LET source == IF forceHtml.type = "string"
                THEN forceHtml.val
                ELSE Preprocess(buf, mathSyntax.brackets, respectNewlines)
      threw  == extThrows
      html   == IF threw
                THEN Micromark(source, "fallback")
                ELSE Micromark(source, "configured")
  IN [safe |-> Sanitize(html), threw |-> threw]

\* Lines 171-182 of _emit(forceHtml): the sanitized result and whether the
\* configured parse threw.
Emit(buf, forceHtml) ==
  LET source == IF forceHtml.type = "string"
                THEN forceHtml.val
                ELSE Preprocess(buf, mathSyntax.brackets, respectNewlines)
      threw  == extThrows
      html   == IF threw
                THEN Micromark(buf, "fallback")
                ELSE Micromark(source, "configured")
  IN [safe |-> Sanitize(html), threw |-> threw]

\* How a step's input reads: not a string, the empty string, a text.
Kind(arg) ==
  IF arg.type # "string" THEN "nonstring" ELSE IF arg.val = <<>> THEN "empty" ELSE "text"

\* A step that ran _emit on buf while the listener was lst: line 183 invokes the
\* listener, if there is one, with the result.
Rendered(op, buf, forceHtml, lst) ==
  LET r == Emit(buf, forceHtml)
  IN ev' = [op |-> op, input |-> "none", emits |-> 1,
            calls |-> IF lst THEN 1 ELSE 0, threw |-> r.threw, safe |-> r.safe]

\* A step that ran no render pass.
NotRendered(op, input) ==
  ev' = [op |-> op, input |-> input, emits |-> 0, calls |-> 0, threw |-> FALSE,
         safe |-> NoHtml]

\* _schedule without its first line (if (this.timer) return).
Schedule_NoGuard ==
  /\ timer' = FreshId
  /\ timeouts' = timeouts \cup {FreshId}

\* _schedule(): a no-op while a timer is pending, else a new one-shot timer.
Schedule ==
  IF timer # NoTimer
  THEN UNCHANGED <<timer, timeouts>>
  ELSE /\ timer' = FreshId
       /\ timeouts' = timeouts \cup {FreshId}

\* _startTypewriter without its first line (if (this.twTimer) return).
StartTypewriter_NoGuard ==
  /\ twTimer' = FreshId
  /\ intervals' = intervals \cup {FreshId}

\* _startTypewriter(): a no-op while the ticker runs, else a new interval.
StartTypewriter ==
  IF twTimer # NoTimer
  THEN UNCHANGED <<twTimer, intervals>>
  ELSE /\ twTimer' = FreshId
       /\ intervals' = intervals \cup {FreshId}

\* if (this.twTimer) { clearInterval(this.twTimer); this.twTimer = null }
StopTypewriter ==
  /\ intervals' = intervals \ {twTimer}
  /\ twTimer' = NoTimer

\* -------------------------------------------------------------- operations

\* write without the emptiness test (|| !chunk) of its first line.
write_AcceptsEmpty(chunk) ==
  /\ UNCHANGED <<config, listener>>
  /\ NotRendered("write", Kind(chunk))
  /\ IF chunk.type # "string"
     THEN UNCHANGED <<buffer, twQueue, timer, twTimer, timeouts, intervals>>
     ELSE IF typewriter.enabled
     THEN /\ twQueue' = Append(twQueue, chunk.val)
          /\ StartTypewriter
          /\ UNCHANGED <<buffer, timer, timeouts>>
     ELSE /\ buffer' = buffer \o chunk.val
          /\ Schedule
          /\ UNCHANGED <<twQueue, twTimer, intervals>>

\* write(chunk)
write(chunk) ==
  /\ UNCHANGED <<config, listener>>
  /\ NotRendered("write", Kind(chunk))
  /\ IF chunk.type # "string" \/ chunk.val = <<>>
     THEN UNCHANGED <<buffer, twQueue, timer, twTimer, timeouts, intervals>>
     ELSE IF typewriter.enabled
     THEN /\ twQueue' = Append(twQueue, chunk.val)
          /\ StartTypewriter
          /\ UNCHANGED <<buffer, timer, timeouts>>
     ELSE /\ buffer' = buffer \o chunk.val
          /\ Schedule
          /\ UNCHANGED <<twQueue, twTimer, intervals>>

\* flush cancelling the pending throttle timer before its render pass.
flush_CancelsTimer ==
  /\ Rendered("flush", buffer, Undefined, listener)
  /\ timeouts' = timeouts \ {timer}
  /\ timer' = NoTimer
  /\ UNCHANGED <<config, buffer, twQueue, twTimer, listener, intervals>>

\* flush()
flush ==
  /\ Rendered("flush", buffer, Undefined, listener)
  /\ UNCHANGED <<config, engine>>

\* clear without the line that stops the ticker.
clear_KeepsTicker ==
  /\ buffer' = <<>>
  /\ twQueue' = <<>>
  /\ Rendered("clear", <<>>, StringValue(<<>>), listener)
  /\ UNCHANGED <<config, timer, timeouts, twTimer, intervals, listener>>

\* clear without the line that empties the queue (this.twQueue.length = 0).
clear_KeepsQueue ==
  /\ buffer' = <<>>
  /\ twQueue' = twQueue
  /\ StopTypewriter
  /\ Rendered("clear", <<>>, StringValue(<<>>), listener)
  /\ UNCHANGED <<config, timer, timeouts, listener>>

\* clear()
clear ==
  /\ buffer' = <<>>
  /\ twQueue' = <<>>
  /\ StopTypewriter
  /\ Rendered("clear", <<>>, StringValue(<<>>), listener)
  /\ UNCHANGED <<config, timer, timeouts, listener>>

\* destroy without its last line (this.listener = null).
destroy_KeepsListener ==
  /\ buffer' = <<>>
  /\ twQueue' = <<>>
  /\ timeouts' = timeouts \ {timer}
  /\ timer' = NoTimer
  /\ StopTypewriter
  /\ NotRendered("destroy", "none")
  /\ UNCHANGED <<config, listener>>

\* destroy()
destroy ==
  /\ buffer' = <<>>
  /\ twQueue' = <<>>
  /\ timeouts' = timeouts \ {timer}
  /\ timer' = NoTimer
  /\ StopTypewriter
  /\ listener' = FALSE
  /\ NotRendered("destroy", "none")
  /\ UNCHANGED config

\* The longest common prefix of old and new: the while loop of update.
RECURSIVE CommonPrefix(_, _, _)
CommonPrefix(old, new, i) ==
  IF i < Len(old) /\ i < Len(new) /\ old[i + 1] = new[i + 1]
  THEN CommonPrefix(old, new, i + 1)
  ELSE i

\* update without the line that empties the queue on a divergence
\* (this.twQueue.length = 0).
update_KeepsQueue(text) ==
  /\ UNCHANGED <<config, listener>>
  /\ NotRendered("update", Kind(text))
  /\ IF text.type # "string"
     THEN UNCHANGED <<buffer, twQueue, timer, twTimer, timeouts, intervals>>
     ELSE IF typewriter.enabled
     THEN LET old       == buffer
              newStr    == text.val
              i         == CommonPrefix(old, newStr, 0)
              isInitial == Len(old) = 0 /\ Len(newStr) > 0
              isAppend  == i = Len(old) /\ Len(newStr) > Len(old)
          IN IF isInitial
             THEN /\ twQueue' = Append(twQueue, newStr)
                  /\ StartTypewriter
                  /\ UNCHANGED <<buffer, timer, timeouts>>
             ELSE IF isAppend
             THEN /\ twQueue' = Append(twQueue, SliceFrom(newStr, i))
                  /\ StartTypewriter
                  /\ UNCHANGED <<buffer, timer, timeouts>>
             ELSE /\ twQueue' = twQueue
                  /\ StopTypewriter
                  /\ buffer' = newStr
                  /\ Schedule
     ELSE /\ buffer' = text.val
          /\ Schedule
          /\ UNCHANGED <<twQueue, twTimer, intervals>>

\* update(text)
update(text) ==
  /\ UNCHANGED <<config, listener>>
  /\ NotRendered("update", Kind(text))
  /\ IF text.type # "string"
     THEN UNCHANGED <<buffer, twQueue, timer, twTimer, timeouts, intervals>>
     ELSE IF typewriter.enabled
     THEN LET old       == buffer
              newStr    == text.val
              i         == CommonPrefix(old, newStr, 0)
              isInitial == Len(old) = 0 /\ Len(newStr) > 0
              isAppend  == i = Len(old) /\ Len(newStr) > Len(old)
          IN IF isInitial
             THEN /\ twQueue' = Append(twQueue, newStr)
                  /\ StartTypewriter
                  /\ UNCHANGED <<buffer, timer, timeouts>>
             ELSE IF isAppend
             THEN /\ twQueue' = Append(twQueue, SliceFrom(newStr, i))
                  /\ StartTypewriter
                  /\ UNCHANGED <<buffer, timer, timeouts>>
             ELSE /\ twQueue' = <<>>
                  /\ StopTypewriter
                  /\ buffer' = newStr
                  /\ Schedule
     ELSE /\ buffer' = text.val
          /\ Schedule
          /\ UNCHANGED <<twQueue, twTimer, intervals>>

\* The callback of _schedule's setTimeout without its first statement
\* (this.timer = null).
TimeoutFires_KeepsHandle(id) ==
  /\ id \in timeouts
  /\ timeouts' = timeouts \ {id}
  /\ Rendered("timeout", buffer, Undefined, listener)
  /\ UNCHANGED <<config, buffer, twQueue, timer, twTimer, intervals, listener>>

\* The callback of _schedule's setTimeout runs: the timer is spent.
TimeoutFires(id) ==
  /\ id \in timeouts
  /\ timeouts' = timeouts \ {id}
  /\ timer' = NoTimer
  /\ Rendered("timeout", buffer, Undefined, listener)
  /\ UNCHANGED <<config, buffer, twQueue, twTimer, intervals, listener>>

\* The ticker's callback taking one character more than it removes from the queue.
TickFires_TakesOneMore(id) ==
  /\ id \in intervals
  /\ UNCHANGED <<config, listener>>
  /\ NotRendered("tick", "none")
  /\ IF Len(twQueue) = 0
     THEN /\ StopTypewriter
          /\ UNCHANGED <<buffer, twQueue, timer, timeouts>>
     ELSE LET current == twQueue[1]
              take    == SliceTo(current, typewriter.step + 1)
              rest    == SliceFrom(current, typewriter.step)
          IN /\ twQueue' = IF Len(rest) > 0
                           THEN [twQueue EXCEPT ![1] = rest]
                           ELSE Tail(twQueue)
             /\ buffer' = buffer \o take
             /\ Schedule
             /\ UNCHANGED <<twTimer, intervals>>

\* The ticker's callback without the branch that stops it on an empty queue.
TickFires_NeverStops(id) ==
  /\ id \in intervals
  /\ UNCHANGED <<config, listener>>
  /\ NotRendered("tick", "none")
  /\ IF Len(twQueue) = 0
     THEN UNCHANGED <<buffer, twQueue, timer, timeouts, twTimer, intervals>>
     ELSE LET current == twQueue[1]
              take    == SliceTo(current, typewriter.step)
              rest    == SliceFrom(current, typewriter.step)
          IN /\ twQueue' = IF Len(rest) > 0
                           THEN [twQueue EXCEPT ![1] = rest]
                           ELSE Tail(twQueue)
             /\ buffer' = buffer \o take
             /\ Schedule
             /\ UNCHANGED <<twTimer, intervals>>

\* The ticker's callback without the branch that removes a consumed chunk
\* (this.twQueue.shift()).
TickFires_KeepsHead(id) ==
  /\ id \in intervals
  /\ UNCHANGED <<config, listener>>
  /\ NotRendered("tick", "none")
  /\ IF Len(twQueue) = 0
     THEN /\ StopTypewriter
          /\ UNCHANGED <<buffer, twQueue, timer, timeouts>>
     ELSE LET current == twQueue[1]
              take    == SliceTo(current, typewriter.step)
              rest    == SliceFrom(current, typewriter.step)
          IN /\ twQueue' = [twQueue EXCEPT ![1] = rest]
             /\ buffer' = buffer \o take
             /\ Schedule
             /\ UNCHANGED <<twTimer, intervals>>

\* The callback of _startTypewriter's setInterval runs once.
TickFires(id) ==
  /\ id \in intervals
  /\ UNCHANGED <<config, listener>>
  /\ NotRendered("tick", "none")
  /\ IF Len(twQueue) = 0
     THEN /\ StopTypewriter
          /\ UNCHANGED <<buffer, twQueue, timer, timeouts>>
     ELSE LET current == twQueue[1]
              take    == SliceTo(current, typewriter.step)
              rest    == SliceFrom(current, typewriter.step)
          IN /\ twQueue' = IF Len(rest) > 0
                           THEN [twQueue EXCEPT ![1] = rest]
                           ELSE Tail(twQueue)
             /\ buffer' = buffer \o take
             /\ Schedule
             /\ UNCHANGED <<twTimer, intervals>>

\* ----------------------------------------------------------------- history

\* No batch of writes is being followed.
NoBatch == [state |-> "idle", text |-> <<>>, writes |-> 0, timers |-> 0]

\* The batch of write calls made while one throttle timer is pending, with
\* typewriter mode off.  It opens at a write made while no timer is pending,
\* grows with each further write, and is done when a timer fires.  text is the
\* buffer before the first write followed by the chunks in call order; timers
\* counts the timers the writes started, writes the writes.  Any other call
\* ends it.
NextBatch(op, arg) ==
  LET started == Cardinality(timeouts' \ timeouts)
      valid   == op = "write" /\ Kind(arg) = "text" /\ ~typewriter.enabled
  IN IF valid /\ batch.state = "open"
     THEN [state |-> "open", text |-> batch.text \o arg.val,
           writes |-> batch.writes + 1, timers |-> batch.timers + started]
     ELSE IF valid /\ timer = NoTimer
     THEN [state |-> "open", text |-> buffer \o arg.val, writes |-> 1,
           timers |-> started]
     ELSE IF op = "write" /\ Kind(arg) # "text" /\ batch.state = "open"
     THEN batch
     ELSE IF op = "timeout" /\ batch.state = "open"
     THEN [batch EXCEPT !.state = "done"]
     ELSE NoBatch

\* No reveal is being followed.
NoReveal ==
  [state |-> "idle", text |-> <<>>, ticks |-> 0, moved |-> 0, calls |-> 0,
   pending |-> FALSE]

\* The reveal of one text: it starts at a write of a text made in typewriter
\* mode while buffer and queue are empty (pending: a throttle timer was pending
\* at that write), and is followed through ticks and timer firings: ticks
\* counts the ticks, moved those that changed the buffer, calls the listener's
\* invocations.  Any other call ends it.
NextReveal(op, arg) ==
  IF /\ op = "write"
     /\ Kind(arg) = "text"
     /\ typewriter.enabled
     /\ buffer = <<>>
     /\ twQueue = <<>>
  THEN [state |-> "run", text |-> arg.val, ticks |-> 0, moved |-> 0, calls |-> 0,
        pending |-> timer # NoTimer]
  ELSE IF reveal.state = "run" /\ op = "tick"
  THEN [reveal EXCEPT !.ticks = @ + 1,
                      !.moved = @ + (IF buffer' # buffer THEN 1 ELSE 0)]
  ELSE IF reveal.state = "run" /\ op = "timeout"
  THEN [reveal EXCEPT !.calls = @ + ev'.calls]
  ELSE NoReveal

\* What a step adds to the history.
Record(op, arg) ==
  /\ UNCHANGED <<observe, parts>>
  /\ destroyed' = (destroyed \/ op = "destroy")
  /\ calls' = IF ~observe THEN calls
              ELSE IF ev'.calls = 1
              THEN [last |-> ev'.safe, repeat |-> ev'.safe = calls.last]
              ELSE [calls EXCEPT !.repeat = FALSE]
  /\ batch' = NextBatch(op, arg)
  /\ reveal' = NextReveal(op, arg)
  /\ stale' = IF ev'.emits = 1 THEN FALSE ELSE (stale \/ buffer' # buffer)

\* ------------------------------------------------------------ specification

\* typewriter.step as the constructor sets it: a positive number, else 1.
ConstructorStep(step) == IF step > 0 THEN step ELSE 1

\* The engine after construction with an onChunk listener, for every explored
\* configuration: typewriter off or on with each step, hard-break mode on (so
\* that preprocessing changes texts of the alphabet), the parser extensions
\* sound or throwing.
Construct ==
  /\ typewriter \in {[enabled |-> FALSE, step |-> ConstructorStep(0)]}
                   \cup {[enabled |-> TRUE, step |-> ConstructorStep(s)] : s \in Steps}
  /\ mathSyntax = [brackets |-> TRUE, dollars |-> FALSE]
  /\ respectNewlines = TRUE
  /\ extThrows \in BOOLEAN
  /\ buffer = <<>>
  /\ twQueue = <<>>
  /\ timer = NoTimer
  /\ twTimer = NoTimer
  /\ listener = TRUE
  /\ timeouts = {}
  /\ intervals = {}
  /\ ev = [op |-> "new", input |-> "none", emits |-> 0, calls |-> 0,
           threw |-> FALSE, safe |-> NoHtml]
  /\ destroyed = FALSE
  /\ calls = [last |-> NoHtml, repeat |-> FALSE]
  /\ batch = NoBatch
  /\ reveal = NoReveal
  /\ stale = FALSE
  /\ parts = <<>>

Init == Construct /\ observe = FALSE

\* A caller's write or update, kept within the explored text length.
Write ==
  \E chunk \in Inputs :
    /\ write(chunk)
    /\ TotalLen(buffer', twQueue') <= MaxLen
    /\ Record("write", chunk)

Update ==
  \E text \in Inputs :
    /\ update(text)
    /\ TotalLen(buffer', twQueue') <= MaxLen
    /\ Record("update", text)

Flush == flush /\ Record("flush", Undefined)

Clear == clear /\ Record("clear", Undefined)

Destroy == destroy /\ Record("destroy", Undefined)

Timeout == \E id \in timeouts : TimeoutFires(id) /\ Record("timeout", Undefined)

Tick == \E id \in intervals : TickFires(id) /\ Record("tick", Undefined)

Next == Write \/ Update \/ Flush \/ Clear \/ Destroy \/ Timeout \/ Tick

Spec == Init /\ [][Next]_vars

\* The engine under a runtime that keeps running the callback of a live
\* interval timer: a ticker that stays live ticks again.
SpecFair == Init /\ [][Next]_vars /\ WF_vars(Tick)

\* The same engine with the listener's arguments recorded and parser
\* extensions that do not throw.
InitObserved == Construct /\ observe = TRUE /\ ~extThrows

SpecObserved == InitObserved /\ [][Next]_vars

\* The writes, ticks and timer firings alone.
NextWrites == Write \/ Tick \/ Timeout

SpecWrites == Init /\ [][NextWrites]_vars

\* The updates, ticks and timer firings alone.
NextUpdates == Update \/ Tick \/ Timeout

SpecUpdates == Init /\ [][NextUpdates]_vars

\* ---------------------------------------------- the preprocessor on its own

\* A part of a text: a stretch of text that holds no opening delimiter, or a
\* span with open and close backslashes before its delimiters.
Part(kind, open, body, close) ==
  [kind |-> kind, open |-> open, body |-> body, close |-> close]

Backslashes(n) == [i \in 1..n |-> "\\"]

\* Stretches of text outside any span: a letter, a line end, a closing
\* delimiter on its own, and parentheses whose body spans two lines.
TextParts ==
  {Part("text", 0, b, 0) :
     b \in {<<"x">>, <<"\n">>, <<"\\", "]">>, <<"\\", ")">>,
            <<"\\", "(", "\n", "\\", ")">>}}

\* Bracket spans, the body on one line or two, or empty.
BlockParts ==
  {Part("block", o, <<"x">>, c) : o \in {1, 2}, c \in {1, 2}}
  \cup {Part("block", 2, <<"x", "\n", "x">>, 1), Part("block", 1, <<>>, 1)}

\* Parenthesis spans on one line.
InlineParts ==
  {Part("inline", o, <<"x">>, c) : o \in {1, 2}, c \in {1, 2}}
  \cup {Part("inline", 1, <<>>, 1)}

\* The characters of a part as the caller writes it.
Written(part) ==
  IF part.kind = "block"
  THEN Backslashes(part.open) \o <<"[">> \o part.body \o Backslashes(part.close) \o <<"]">>
  ELSE IF part.kind = "inline"
  THEN Backslashes(part.open) \o <<"(">> \o part.body \o Backslashes(part.close) \o <<")">>
  ELSE part.body

\* The lines texts are made of for hard-break insertion: plain lines (with no,
\* one and two trailing spaces), blank lines, and the starts of block elements.
Lines ==
  { <<"a">>, <<"a", " ">>, <<"a", " ", " ">>, <<>>, <<" ">>,
    <<"#", " ", "a">>, <<">", " ", "a">>, <<"-", " ", "a">>, <<"1", ".", " ", "a">>,
    <<BackTick, BackTick, BackTick>>, <<"$", "$">>, <<"<", "p", ">">> }

LineParts == {Part("line", 0, l, 0) : l \in Lines}

\* The texts of up to n parts: math parts written one after the other, or lines.
Compositions(n) ==
  UNION {[1..k -> TextParts \cup BlockParts \cup InlineParts] : k \in 0..n}
  \cup UNION {[1..k -> LineParts] : k \in 1..n}

\* The text a composition stands for.
TextOf(ps) ==
  IF ps # <<>> /\ ps[1].kind = "line"
  THEN JoinLines([i \in 1..Len(ps) |-> ps[i].body])
  ELSE Concat([i \in 1..Len(ps) |-> Written(ps[i])])

\* The engine after construction without typewriter mode, for each setting of
\* mathSyntax.brackets and respectNewlines, and the text its caller will supply.
InitPreprocess ==
  /\ typewriter = [enabled |-> FALSE, step |-> ConstructorStep(0)]
  /\ mathSyntax \in {[brackets |-> b, dollars |-> FALSE] : b \in BOOLEAN}
  /\ respectNewlines \in BOOLEAN
  /\ extThrows = FALSE
  /\ buffer = <<>>
  /\ twQueue = <<>>
  /\ timer = NoTimer
  /\ twTimer = NoTimer
  /\ listener = TRUE
  /\ timeouts = {}
  /\ intervals = {}
  /\ ev = [op |-> "new", input |-> "none", emits |-> 0, calls |-> 0,
           threw |-> FALSE, safe |-> NoHtml]
  /\ observe = FALSE
  /\ destroyed = FALSE
  /\ calls = [last |-> NoHtml, repeat |-> FALSE]
  /\ batch = NoBatch
  /\ reveal = NoReveal
  /\ stale = FALSE
  /\ parts \in Compositions(MaxParts)

\* The caller's first call: update with the text it composed.
Supply ==
  /\ ev.op = "new"
  /\ update(StringValue(TextOf(parts)))
  /\ Record("update", StringValue(TextOf(parts)))

NextPreprocess == Supply \/ Timeout

SpecPreprocess == InitPreprocess /\ [][NextPreprocess]_vars

\* The source text the parser was given, read back from a sanitized result.
SourceOf(safe) == safe[2][3]

\* ------------------------------------------------------------------ claims

\* C1: the listener is never invoked twice in a row with an identical string,
\* except by clear(); two flush() calls in a row invoke it at most once.
C1_NeverTwiceInARow == (ev.calls = 1 /\ ev.op # "clear") => ~calls.repeat

\* C2: with typewriter mode off, the writes made from a state with no timer
\* pending until the timer fires start exactly one timer, no render pass runs
\* before it fires, and the one render pass it runs reads the buffer before the
\* first write followed by all the chunks in call order.
C2_Coalescing ==
  /\ batch.state = "open" =>
       /\ batch.timers = 1
       /\ Cardinality(timeouts) = 1
       /\ ev.emits = 0
       /\ buffer = batch.text
  /\ batch.state = "done" =>
       /\ batch.timers = 1
       /\ timeouts = {}
       /\ ev.emits = 1
       /\ ev.safe = Emit(batch.text, Undefined).safe

\* C2's case: a timer fired after two or more writes were made while it was pending.
C2_Witness == batch.state = "done" /\ batch.writes >= 2 /\ ev.calls = 1

\* C3: after destroy() the listener is never invoked again, whatever calls and
\* timer firings follow, and no timer that was pending survives the call.
C3_NoCallAfterDestroy ==
  /\ destroyed => (ev.calls = 0 /\ ~listener)
  /\ ev.op = "destroy" => (timeouts = {} /\ intervals = {})

\* C3's case: a render pass ran after destroy() and the listener was not invoked.
C3_Witness == destroyed /\ ev.op = "timeout" /\ ev.emits = 1 /\ buffer # <<>>

\* C4: once destroy() has been called, no render pass runs and no throttle
\* timer or typewriter ticker is pending.
C4_NoRenderAfterDestroy ==
  destroyed => (ev.emits = 0 /\ timeouts = {} /\ intervals = {})

\* C5 as stated: destroy() and clear() both leave no timer outstanding.
C5_BothCancelEveryTimer ==
  ev.op \in {"destroy", "clear"} => (timeouts = {} /\ intervals = {})

\* C5 as amended: destroy() cancels the throttle timer and the ticker; clear()
\* cancels the ticker and leaves the throttle timer as it was.
C5_Cancellation ==
  [][/\ ev'.op = "destroy" =>
          (timeouts' = {} /\ intervals' = {} /\ timer' = NoTimer /\ twTimer' = NoTimer)
     /\ ev'.op = "clear" =>
          (intervals' = {} /\ twTimer' = NoTimer /\ timeouts' = timeouts /\ timer' = timer)]_vars

\* C5's case: clear() was called in typewriter mode with a throttle timer
\* pending, which is still pending.
C5_Witness == ev.op = "clear" /\ typewriter.enabled /\ timeouts # {}

\* The renderings of the empty text.
EmptyResults ==
  {Sanitize(Micromark(<<>>, "configured")), Sanitize(Micromark(<<>>, "fallback"))}

\* C6: clear() empties buffer and queue, stops the ticker and invokes the
\* listener exactly once with the rendering of the empty text; with no further
\* call, no timer invokes the listener after it.
C6_ClearEmitsOnce ==
  [][/\ (ev'.op = "clear" /\ listener) =>
          /\ buffer' = <<>>
          /\ twQueue' = <<>>
          /\ intervals' = {}
          /\ ev'.calls = 1
          /\ ev'.safe \in EmptyResults
     /\ (ev.op = "clear" /\ ev'.op \in {"timeout", "tick"}) => ev'.calls = 0]_vars

IsPrefix(p, t) == Len(p) <= Len(t) /\ SubSeq(t, 1, Len(p)) = p

\* C7: in typewriter mode an update whose text extends the text supplied so far
\* (revealed or queued) leaves buffer followed by queue equal to the new text,
\* and queues exactly the appended characters.
C7_UpdateQueuesOnlyDelta ==
  [][\A t \in Texts(MaxLen) :
       LET supplied == buffer \o Concat(twQueue)
       IN (/\ typewriter.enabled
           /\ update(StringValue(t))
           /\ IsPrefix(supplied, t)
           /\ Len(t) > Len(supplied))
          => /\ buffer' \o Concat(twQueue') = t
             /\ Len(Concat(twQueue')) - Len(Concat(twQueue)) = Len(t) - Len(supplied)]_vars

\* C8 as stated: a write or update of a non-string or of the empty string
\* changes nothing.
C8_InvalidInputIgnored ==
  [][(ev'.op \in {"write", "update"} /\ ev'.input \in {"nonstring", "empty"})
       => UNCHANGED engine]_vars

\* C8 as amended: a write of a non-string or of the empty string and an update
\* of a non-string change nothing; update("") replaces the text by the empty
\* text: buffer and queue empty, ticker stopped, a render scheduled.
C8_InvalidInputAmended ==
  [][/\ (\/ ev'.op = "write" /\ ev'.input \in {"nonstring", "empty"}
         \/ ev'.op = "update" /\ ev'.input = "nonstring")
          => (UNCHANGED engine /\ ev'.emits = 0)
     /\ (ev'.op = "update" /\ ev'.input = "empty")
          => /\ buffer' = <<>>
             /\ twQueue' = <<>>
             /\ twTimer' = NoTimer
             /\ intervals' = {}
             /\ timer' # NoTimer
             /\ timer' \in timeouts'
             /\ ev'.emits = 0]_vars

\* C8's case: an invalid write was ignored by an engine holding text and timers.
C8_Witness ==
  /\ ev.op = "write"
  /\ ev.input = "empty"
  /\ buffer # <<>>
  /\ twQueue # <<>>
  /\ timeouts # {}

\* C9: when the configured parse throws, the render pass delivers the sanitized
\* fallback parse of the raw buffer, and the step leaves buffer, queue and
\* timers as the call does without a failure.
C9_ParseFailureFallsBack ==
  [][ev'.threw =>
       /\ ev'.emits = 1
       /\ ev'.safe = Sanitize(Micromark(buffer', "fallback"))
       /\ ev'.calls = (IF listener THEN 1 ELSE 0)
       /\ ev'.op \in {"flush", "clear", "timeout"}
       /\ ev'.op = "flush" => UNCHANGED engine
       /\ ev'.op = "timeout" =>
            /\ UNCHANGED <<buffer, twQueue, twTimer, intervals, listener>>
            /\ timer' = NoTimer
            /\ Cardinality(timeouts') = Cardinality(timeouts) - 1
       /\ ev'.op = "clear" =>
            /\ buffer' = <<>>
            /\ twQueue' = <<>>
            /\ twTimer' = NoTimer
            /\ intervals' = {}
            /\ UNCHANGED <<timer, timeouts, listener>>]_vars

\* C9's case: the parse threw on a buffer that preprocessing changes, and the
\* listener received the fallback.
C9_Witness ==
  /\ ev.threw
  /\ ev.calls = 1
  /\ ev.op = "timeout"
  /\ Preprocess(buffer, mathSyntax.brackets, respectNewlines) # buffer

\* The reveal so far: the first min(ticks * step, L) characters are in the
\* buffer, and the listener was invoked no more often than ticks changed it.
RevealInStep ==
  /\ buffer = SliceTo(reveal.text, Min(reveal.ticks * typewriter.step, Len(reveal.text)))
  /\ reveal.calls <= reveal.moved

\* C10 as stated: from an empty buffer and queue.
C10_Reveal == reveal.state = "run" => RevealInStep

\* C10 as amended: from an empty buffer and queue with no throttle timer pending.
C10_RevealNoTimerPending == (reveal.state = "run" /\ ~reveal.pending) => RevealInStep

\* C10's case: a text of two characters or more is fully revealed after two
\* ticks or more, and the listener was invoked.
C10_Witness ==
  /\ reveal.state = "run"
  /\ ~reveal.pending
  /\ Len(reveal.text) >= 2
  /\ reveal.ticks >= 2
  /\ buffer = reveal.text
  /\ reveal.calls >= 1

\* C11: with no destroy() among the calls, once no timer is left to run the
\* latest render pass read the buffer as it is now: no assignment to the buffer
\* is left without a later render pass.
C11_RenderedLatest ==
  (~destroyed /\ timeouts = {} /\ intervals = {}) => (~stale /\ timer = NoTimer)

\* C11's case: the timers have all run after texts went through the typewriter
\* queue, and the latest step was the render pass of the last timer.
C11_Witness ==
  /\ ~destroyed
  /\ typewriter.enabled
  /\ timeouts = {}
  /\ intervals = {}
  /\ Len(buffer) >= 2
  /\ ev.op = "timeout"
  /\ ev.calls = 1

\* What the bracket rewrite makes of a part: the block form of a bracket span,
\* the inline form of a parenthesis span, a stretch of text as it is.
Rewritten(part) ==
  IF part.kind = "block" THEN <<"$", "$", "\n">> \o part.body \o <<"\n", "$", "$">>
  ELSE IF part.kind = "inline" THEN <<"$">> \o part.body \o <<"$">>
  ELSE part.body

PlainLine(l) ==
  LET t == Trim(l)
  IN /\ t # <<>>
     /\ ~BlockStart(t)
     /\ ~IsFence(t)
     /\ ~StartsWith(t, <<"$", "$">>)
     /\ ~ClosingHtmlBlock(t)

\* Line i of ls lies inside a code fence: an odd number of fence lines precede it.
InCodeFence(ls, i) == Cardinality({j \in 1..(i - 1) : IsFence(Trim(ls[j]))}) % 2 = 1

\* Line i of ls lies inside a block-math region: an odd number of lines of two
\* dollars outside code fences precede it.
InBlockMath(ls, i) ==
  Cardinality({j \in 1..(i - 1) : /\ StartsWith(Trim(ls[j]), <<"$", "$">>)
                                  /\ ~IsFence(Trim(ls[j]))
                                  /\ ~InCodeFence(ls, j)}) % 2 = 1

\* C13: with respectNewlines on, whatever mathSyntax is, a non-empty line of
\* plain text outside code fences and block-math regions that is followed by
\* another and does not end in two whitespace characters gets exactly two
\* spaces appended; a line of plain text followed by a blank line, by the start
\* of a block element or by nothing is left as it is.
C13_HardBreaks ==
  (/\ ev.op = "timeout"
   /\ respectNewlines
   /\ parts # <<>>
   /\ parts[1].kind = "line")
  => LET ls  == [i \in 1..Len(parts) |-> parts[i].body]
         out == SplitLines(SourceOf(ev.safe))
     IN /\ Len(out) = Len(ls)
        /\ \A i \in 1..Len(ls) :
             LET next == IF i < Len(ls) THEN ls[i + 1] ELSE <<>>
             IN /\ (/\ ~InCodeFence(ls, i)
                    /\ ~InBlockMath(ls, i)
                    /\ PlainLine(ls[i])
                    /\ PlainLine(next)
                    /\ ~EndsInTwoSpaces(ls[i]))
                   => out[i] = ls[i] \o <<" ", " ">>
                /\ (PlainLine(ls[i]) /\ (Trim(next) = <<>> \/ BlockStart(Trim(next))))
                   => out[i] = ls[i]

\* C14: at most one throttle timer and at most one ticker are live, and a live
\* timer is the one whose handle the engine holds in timer or twTimer: no step
\* starts a second timer or overwrites the handle of a live one.
C14_OneTimerEach ==
  /\ Cardinality(timeouts) <= 1
  /\ Cardinality(intervals) <= 1
  /\ \A id \in timeouts : id = timer
  /\ \A id \in intervals : id = twTimer

\* C14's case: a second chunk was written while the ticker ran and a throttle
\* timer was pending, and there is still one of each.
C14_Witness ==
  /\ ev.op = "write"
  /\ ev.input = "text"
  /\ Len(twQueue) >= 2
  /\ buffer # <<>>
  /\ Cardinality(timeouts) = 1
  /\ Cardinality(intervals) = 1

\* The latest step was an update that took the branch of a divergence: in
\* typewriter mode every other branch of update leaves a chunk in the queue.
Diverged ==
  /\ typewriter.enabled
  /\ ev.op = "update"
  /\ ev.input # "nonstring"
  /\ twQueue = <<>>

\* C15: in typewriter mode an update whose text is neither an initial reveal
\* (buffer empty, text not) nor a strict extension of the buffer leaves the queue
\* empty, the ticker stopped, the buffer equal to the text and a throttle timer
\* pending; the next render pass reads the new text.
C15_UpdateDiverges ==
  [][/\ (typewriter.enabled /\ ev'.op = "update") =>
          \A t \in Texts(MaxLen) :
            (/\ ~(buffer = <<>> /\ t # <<>>)
             /\ ~(IsPrefix(buffer, t) /\ Len(t) > Len(buffer))
             /\ update(StringValue(t)))
            => /\ twQueue' = <<>>
               /\ twTimer' = NoTimer
               /\ intervals' = {}
               /\ buffer' = t
               /\ timer' # NoTimer
               /\ timeouts' = {timer'}
     /\ (Diverged /\ ev'.emits = 1 /\ ev'.op # "clear")
          => ev'.safe = Emit(buffer, Undefined).safe]_vars

\* C15's case: an update replaced the revealed text by another text; nothing is
\* queued, no ticker runs and the render is pending.
C15_Witness ==
  /\ Diverged
  /\ ev.input = "text"
  /\ buffer # <<>>
  /\ intervals = {}
  /\ timer \in timeouts

\* C16: the first tick that finds the queue empty stops the ticker and does
\* nothing else; with the ticker stopped, no step but a write or an update
\* starts a ticker or a throttle timer; and once no write or update arrives any
\* more, in the end the queue is empty and the ticker stopped for good.
C16_TypewriterStops ==
  /\ [][(ev'.op = "tick" /\ twQueue = <<>>)
          => /\ intervals' = {}
             /\ twTimer' = NoTimer
             /\ UNCHANGED <<buffer, twQueue, timer, timeouts>>]_vars
  /\ [][(intervals = {} /\ ev'.op \notin {"write", "update"})
          => /\ ev'.op # "tick"
             /\ intervals' = {}
             /\ timeouts' \subseteq timeouts]_vars
  /\ (<>[][ev'.op \notin {"write", "update"}]_vars)
       => <>[](twQueue = <<>> /\ intervals = {})

\* C16's case: the ticker stopped itself after it had drained a queue of two
\* characters or more.
C16_Witness ==
  /\ typewriter.enabled
  /\ ev.op = "tick"
  /\ twQueue = <<>>
  /\ intervals = {}
  /\ twTimer = NoTimer
  /\ Len(buffer) >= 2
  /\ ~destroyed

\* C17: in typewriter mode, over writes, ticks and timer firings, the buffer
\* followed by the queued chunks is the written chunks in call order: it starts
\* empty, a write of a text adds its chunk at the end of the queue, and nothing
\* else changes it.  A tick moves min(step, length of the head chunk) characters
\* from the front of the head chunk to the end of the buffer and drops the head
\* chunk when nothing is left of it; the queue never holds an empty chunk.
C17_Conservation ==
  /\ [](\A i \in 1..Len(twQueue) : twQueue[i] # <<>>)
  /\ [][typewriter.enabled =>
          /\ ev'.op = "write" =>
               \A c \in Inputs :
                 (Kind(c) = "text" /\ write(c))
                 => (buffer' = buffer /\ twQueue' = twQueue \o <<c.val>>)
          /\ (ev'.op = "write" /\ ev'.input # "text") => UNCHANGED <<buffer, twQueue>>
          /\ ev'.op = "timeout" => UNCHANGED <<buffer, twQueue>>
          /\ (ev'.op = "tick" /\ twQueue = <<>>) => UNCHANGED <<buffer, twQueue>>
          /\ (ev'.op = "tick" /\ twQueue # <<>>)
             => LET head == twQueue[1]
                    n    == Min(typewriter.step, Len(head))
                IN /\ buffer' = buffer \o SubSeq(head, 1, n)
                   /\ twQueue' = IF n = Len(head)
                                 THEN Tail(twQueue)
                                 ELSE <<SubSeq(head, n + 1, Len(head))>> \o Tail(twQueue)
                   /\ buffer' \o Concat(twQueue') = buffer \o Concat(twQueue)]_vars

\* C17's case: with step 2 a tick took the one character of the head chunk and
\* left the next chunk whole.
C17_Witness ==
  /\ typewriter.enabled
  /\ typewriter.step = 2
  /\ ev.op = "tick"
  /\ Len(buffer) = 1
  /\ Len(twQueue) = 1
  /\ Len(twQueue[1]) = 2

\* C18: whenever the queue holds a chunk the ticker is running: its handle is
\* set and names a live interval.
C18_NoStrandedQueue == twQueue # <<>> => (twTimer # NoTimer /\ twTimer \in intervals)

\* C18's case: after destroy() a written text is being revealed: a tick has
\* run, a chunk is still queued and the ticker is live.
C18_Witness ==
  /\ destroyed
  /\ ev.op = "tick"
  /\ buffer # <<>>
  /\ twQueue # <<>>
  /\ twTimer \in intervals

\* C19: flush() runs one render pass, which reads the buffer as it is, and
\* leaves the buffer, the queue, the throttle timer and the ticker as they were.
C19_FlushOnlyRenders ==
  [][ev'.op = "flush" =>
       /\ ev'.emits = 1
       /\ ev'.calls = (IF listener THEN 1 ELSE 0)
       /\ ev'.safe = Emit(buffer, Undefined).safe
       /\ UNCHANGED <<buffer, twQueue, timer, timeouts, twTimer, intervals, listener>>]_vars

\* C19's case: flush() was called on a text in reveal with a throttle timer
\* pending and the ticker running, and both are still live.
C19_Witness ==
  /\ ev.op = "flush"
  /\ ev.calls = 1
  /\ buffer # <<>>
  /\ twQueue # <<>>
  /\ timer \in timeouts
  /\ twTimer \in intervals

====
